---------------------------- MODULE Spec2Model ----------------------------
(***************************************************************************)
(* A model of src/main.cpp: binarizeAndSaveJPG (validate the path, decode, *)
(* gray-convert, binarize, write the PNG, verify it, optionally display)   *)
(* and adaptiveDisplay (scale an image for display and show it in a        *)
(* window).  Strings are sequences of one-character strings; a double is   *)
(* a 53-bit mantissa with a binary exponent and is rounded to nearest,     *)
(* ties to even, as IEEE-754 arithmetic does.                              *)
(***************************************************************************)
EXTENDS Integers, Sequences, FiniteSets, TLC

VARIABLES
    inputPath,       \* parameter inputPath
    showResult,      \* parameter showResult
    useOtsu,         \* parameter useOtsu
    fixedThreshold,  \* parameter fixedThreshold
    disk,            \* the filesystem: path -> file, for the files that exist
    disk0,           \* the filesystem when the call was made
    pc,              \* the position of the call
    exc,             \* the exception in flight: "none", "std" or "unknown"
    outputFilePath,  \* local outputFilePath
    image,           \* local image (adaptiveDisplay: parameter image)
    grayImage,       \* local grayImage
    binaryImage,     \* local binaryImage
    thresholdValue,  \* local thresholdValue
    colorBinary,     \* local colorBinary, with the texts put on it
    cout,            \* what was written to std::cout
    cerr,            \* what was written to std::cerr
    windows,         \* the process-wide HighGUI windows: name -> shown size
    keyPressed,      \* a key event is pending
    keysRead,        \* the number of key events waitKey has consumed
    result,          \* the returned string, once pc = "done"
    trace            \* the steps executed so far, in order

vars == <<inputPath, showResult, useOtsu, fixedThreshold, disk, disk0, pc, exc,
          outputFilePath, image, grayImage, binaryImage, thresholdValue,
          colorBinary, cout, cerr, windows, keyPressed, keysRead, result, trace>>

-----------------------------------------------------------------------------
(* Bounds of the model.                                                    *)

\* Sample images are 1 or 2 rows by 1..MaxCols columns.
MaxCols == 2

\* adaptiveDisplay alone is applied to images 1..MaxDisplayCols columns wide.
MaxDisplayCols == 3

-----------------------------------------------------------------------------
(* std::string and std::filesystem::path (POSIX, generic format).          *)

LastIndexOf(s, c) ==
    LET hits == {i \in 1..Len(s) : s[i] = c}
    IN  IF hits = {} THEN 0 ELSE CHOOSE i \in hits : \A j \in hits : j <= i

\* path::filename(): what follows the last separator
Filename(p) == SubSeq(p, LastIndexOf(p, "/") + 1, Len(p))

\* path::extension(): from the last dot of the filename, unless the filename
\* is "." or ".." or its only dot is its first character
Extension(p) ==
    LET f == Filename(p)
        k == LastIndexOf(f, ".")
    IN  IF f = <<".">> \/ f = <<".", ".">> \/ k <= 1
        THEN << >>
        ELSE SubSeq(f, k, Len(f))

\* path::stem(): the filename without its extension
Stem(p) ==
    LET f == Filename(p)
    IN  SubSeq(f, 1, Len(f) - Len(Extension(p)))

RECURSIVE StripTrailingSeparators(_)
StripTrailingSeparators(s) ==
    IF s # << >> /\ s[Len(s)] = "/"
    THEN StripTrailingSeparators(SubSeq(s, 1, Len(s) - 1))
    ELSE s

\* path::parent_path(): the path without its last component; the root
\* directory is its own parent
ParentPath(p) ==
    LET k == LastIndexOf(p, "/")
        head == StripTrailingSeparators(SubSeq(p, 1, k - 1))
    IN  IF k = 0 THEN << >>
        ELSE IF head = << >> THEN <<"/">>
        ELSE head

\* operator/(path, path): an absolute right side replaces the left; a
\* separator is added unless the left side is empty or ends with one
PathAppend(p, q) ==
    IF q # << >> /\ q[1] = "/" THEN q
    ELSE IF p = << >> THEN q
    ELSE IF p[Len(p)] = "/" THEN p \o q
    ELSE p \o <<"/">> \o q

ExtJpg  == <<".", "j", "p", "g">>
ExtJpeg == <<".", "j", "p", "e", "g">>
ExtPng  == <<".", "p", "n", "g">>
BinaryPrefix == <<"b", "i", "n", "a", "r", "y", "_">>

\* A variant that compares without regard to case.
UnsupportedExtension_IgnoresCase(p) ==
    Extension(p) \notin {ExtJpg, ExtJpeg, <<".", "J", "P", "G">>}

\* lines 44-45: the extension is neither ".jpg" nor ".jpeg"
UnsupportedExtension(p) == Extension(p) # ExtJpg /\ Extension(p) # ExtJpeg

\* A variant that forgets the parent directory.
OutputPathOf_NoParent(p) == BinaryPrefix \o Stem(p) \o ExtPng

\* lines 58-59: parent_path() / ("binary_" + stem() + ".png")
OutputPathOf(p) == PathAppend(ParentPath(p), BinaryPrefix \o Stem(p) \o ExtPng)

-----------------------------------------------------------------------------
(* double: value = (the integer whose binary digits are mant, most         *)
(* significant first) * 2^exp, with Len(mant) = DblMantDig and mant[1] = 1. *)
(* Integers above 2^30 are never formed: a mantissa is handled 13 digits   *)
(* at a time.                                                              *)

\* the precision of a double, in bits
DblMantDig == 53

Pow2(k) ==
    <<1, 2, 4, 8, 16, 32, 64, 128, 256, 512, 1024, 2048, 4096, 8192, 16384,
      32768, 65536, 131072, 262144, 524288, 1048576, 2097152, 4194304,
      8388608, 16777216, 33554432, 67108864, 134217728, 268435456,
      536870912, 1073741824>>[k + 1]

Zeros(w) == [i \in 1..w |-> 0]

\* n on w binary digits, most significant first
FixedBits(n, w) == [i \in 1..w |-> (n \div Pow2(w - i)) % 2]

\* the number of binary digits of n, 1 <= n < 2^30
BitLength(n) == CHOOSE len \in 1..30 : n < Pow2(len) /\ n >= Pow2(len - 1)

\* the binary digits of n, 1 <= n < 2^30, the first of them 1
Bits(n) == FixedBits(n, BitLength(n))

RECURSIVE BitsValue(_)
\* the integer of at most 30 binary digits
BitsValue(b) ==
    IF b = << >> THEN 0
    ELSE 2 * BitsValue(SubSeq(b, 1, Len(b) - 1)) + b[Len(b)]

\* b + 1 on Len(b) digits, and the carry out
Increment(b) ==
    LET zeroAt == {i \in 1..Len(b) : b[i] = 0}
        last0  == CHOOSE i \in zeroAt : \A k \in zeroAt : k <= i
    IN  IF zeroAt = {} THEN [bits |-> Zeros(Len(b)), carry |-> 1]
        ELSE [bits  |-> [i \in 1..Len(b) |->
                            IF i < last0 THEN b[i] ELSE IF i = last0 THEN 1 ELSE 0],
              carry |-> 0]

\* Round the exact value (digits b, then a non-zero tail iff sticky) * 2^e to
\* DblMantDig digits, to nearest, ties to even.  Len(b) >= DblMantDig, b[1] = 1.
RoundNearestEven(b, sticky, e) ==
    LET m     == SubSeq(b, 1, DblMantDig)
        rest  == SubSeq(b, DblMantDig + 1, Len(b))
        guard == rest # << >> /\ rest[1] = 1
        tail  == sticky \/ \E i \in 2..Len(rest) : rest[i] = 1
        up    == guard /\ (tail \/ m[DblMantDig] = 1)
        inc   == Increment(m)
    IN  IF ~up THEN [mant |-> m, exp |-> e + Len(rest)]
        ELSE IF inc.carry = 0 THEN [mant |-> inc.bits, exp |-> e + Len(rest)]
        ELSE [mant |-> <<1>> \o Zeros(DblMantDig - 1), exp |-> e + Len(rest) + 1]

\* the conversion int -> double of n, 1 <= n < 2^30 (exact)
IntToDouble(n) ==
    [mant |-> Bits(n) \o Zeros(DblMantDig - BitLength(n)),
     exp  |-> BitLength(n) - DblMantDig]

\* the double a / b of two doubles holding the integers 1 <= a, b < 2^15:
\* the quotient's integer digits, then 65 digits of its fraction, rounded
FDiv(a, b) ==
    LET j  == CHOOSE sh \in 0..15 :
                  /\ a * Pow2(sh) >= b
                  /\ (sh = 0 \/ a * Pow2(sh - 1) < b)
        a2 == a * Pow2(j)
        r0 == a2 % b
        r1 == (r0 * 8192) % b
        r2 == (r1 * 8192) % b
        r3 == (r2 * 8192) % b
        r4 == (r3 * 8192) % b
        r5 == (r4 * 8192) % b
        digits == Bits(a2 \div b)
                    \o FixedBits((r0 * 8192) \div b, 13)
                    \o FixedBits((r1 * 8192) \div b, 13)
                    \o FixedBits((r2 * 8192) \div b, 13)
                    \o FixedBits((r3 * 8192) \div b, 13)
                    \o FixedBits((r4 * 8192) \div b, 13)
    IN  RoundNearestEven(digits, r5 # 0, 0 - 65 - j)

\* the double n * d, n an int (1 <= n < 2^15) converted to double: the exact
\* product, 13 digits of the mantissa at a time from the least significant,
\* rounded
FMulInt(n, d) ==
    LET padded  == Zeros(65 - DblMantDig) \o d.mant
        limb(k) == BitsValue(SubSeq(padded, 13 * (k - 1) + 1, 13 * k))
        t5 == n * limb(5)
        t4 == n * limb(4) + t5 \div 8192
        t3 == n * limb(3) + t4 \div 8192
        t2 == n * limb(2) + t3 \div 8192
        t1 == n * limb(1) + t2 \div 8192
        product == Bits(t1)
                     \o FixedBits(t2 % 8192, 13)
                     \o FixedBits(t3 % 8192, 13)
                     \o FixedBits(t4 % 8192, 13)
                     \o FixedBits(t5 % 8192, 13)
    IN  RoundNearestEven(product, FALSE, d.exp)

\* static_cast<int>(d): truncation toward zero, for 0 < d < 2^30
TruncToInt(d) ==
    LET intDigits == DblMantDig + d.exp
    IN  IF intDigits <= 0 THEN 0 ELSE BitsValue(SubSeq(d.mant, 1, intDigits))

-----------------------------------------------------------------------------
(* cv::Mat and the OpenCV calls of the program.  data holds the pixels row *)
(* by row: a triple <<blue, green, red>> with 3 channels, an intensity     *)
(* 0..255 with 1.                                                          *)

EmptyMat == [rows |-> 0, cols |-> 0, channels |-> 0, data |-> << >>]

\* Mat::empty()
IsEmpty(m) == m.data = << >>

\* cv::cvtColor(.., COLOR_BGR2GRAY) on 8-bit pixels: fixed-point
\* 0.114 B + 0.587 G + 0.299 R, rounded
GrayOf(bgr) == (bgr[1] * 1868 + bgr[2] * 9617 + bgr[3] * 4899 + 8192) \div 16384

CvtColorBGR2GRAY(m) ==
    [rows |-> m.rows, cols |-> m.cols, channels |-> 1,
     data |-> [i \in 1..Len(m.data) |-> GrayOf(m.data[i])]]

\* cv::cvtColor(.., COLOR_GRAY2BGR)
CvtColorGRAY2BGR(m) ==
    [rows |-> m.rows, cols |-> m.cols, channels |-> 3,
     data |-> [i \in 1..Len(m.data) |-> <<m.data[i], m.data[i], m.data[i]>>]]

\* A variant that also maps a pixel equal to thresh to maxval.
ThresholdBinary_NotStrict(m, thresh, maxval) ==
    [rows |-> m.rows, cols |-> m.cols, channels |-> 1,
     data |-> [i \in 1..Len(m.data) |->
                  IF m.data[i] >= thresh THEN maxval ELSE 0]]

\* cv::threshold(.., THRESH_BINARY): maxval where the pixel is above thresh
ThresholdBinary(m, thresh, maxval) ==
    [rows |-> m.rows, cols |-> m.cols, channels |-> 1,
     data |-> [i \in 1..Len(m.data) |->
                  IF m.data[i] > thresh THEN maxval ELSE 0]]

RECURSIVE SumSeq(_)
SumSeq(q) == IF q = << >> THEN 0 ELSE q[1] + SumSeq(Tail(q))

\* The threshold cv::threshold(.., THRESH_OTSU) computes: the least level
\* that maximises the between-class variance n1 n2 (mean1 - mean2)^2 of the
\* pixels <= level and the pixels > level, 0 when no level separates two
\* classes.  The variance changes only at levels that occur in the image,
\* so only those are compared; two variances num/den are compared by
\* cross-multiplication.
OtsuThreshold(m) ==
    LET px       == m.data
        idx      == 1..Len(px)
        Low(t)   == {i \in idx : px[i] <= t}
        N1(t)    == Cardinality(Low(t))
        N2(t)    == Len(px) - N1(t)
        S1(t)    == SumSeq([i \in idx |-> IF px[i] <= t THEN px[i] ELSE 0])
        S2(t)    == SumSeq(px) - S1(t)
        Diff(t)  == S1(t) * N2(t) - S2(t) * N1(t)
        Num(t)   == Diff(t) * Diff(t)
        Den(t)   == N1(t) * N2(t)
        levels   == {px[i] : i \in idx}
        cand     == {t \in levels : N2(t) > 0}
        Better(t, u) == Num(t) * Den(u) > Num(u) * Den(t)
        best     == CHOOSE t \in cand :
                        \A u \in cand : /\ ~Better(u, t)
                                        /\ (u < t => Better(t, u))
    IN  IF cand = {} THEN 0 ELSE best

\* A file: its length in bytes and what cv::imread decodes from it.
JpegFile(m)    == [bytes |-> 100 + Len(m.data), image |-> m]
JunkFile       == [bytes |-> 7, image |-> EmptyMat]
ZeroLengthFile == [bytes |-> 0, image |-> EmptyMat]
\* what cv::imwrite writes for a ".png" path
PngFile(m)     == [bytes |-> 67 + Len(m.data), image |-> m]

NoFiles == [f \in {} |-> ZeroLengthFile]

\* fs::exists
Exists(d, path) == path \in DOMAIN d

\* fs::file_size
FileSize(d, path) == d[path].bytes

\* cv::imread(.., IMREAD_COLOR): an empty Mat when the file cannot be decoded
Imread(d, path) == IF Exists(d, path) THEN d[path].image ELSE EmptyMat

-----------------------------------------------------------------------------
(* adaptiveDisplay                                                         *)

\* line 9: double maxHeight = 800.0 (an integer-valued double)
DefaultMaxHeight == 800

\* lines 11-14
AdaptiveScale(m, maxHeight) ==
    IF m.rows > maxHeight THEN FDiv(maxHeight, m.rows) ELSE IntToDouble(1)

\* lines 17-18
AdaptiveNewSize(m, maxHeight) ==
    [width  |-> TruncToInt(FMulInt(m.cols, AdaptiveScale(m, maxHeight))),
     height |-> TruncToInt(FMulInt(m.rows, AdaptiveScale(m, maxHeight)))]

NoWindows == [w \in {} |-> [width |-> 0, height |-> 0]]

\* A created window that shows no image yet.
BlankWindow == [width |-> 0, height |-> 0]

\* lines 9-27, called with window name windowName on m; next is where the
\* caller continues.  cv::resize raises cv::Exception when the requested
\* size is empty; resize (allocation), namedWindow and imshow may fail.
AdaptiveDisplay(windowName, m, next) ==
    LET newSize == AdaptiveNewSize(m, DefaultMaxHeight)
    IN  IF newSize.width <= 0 \/ newSize.height <= 0
        THEN /\ exc' = "std"
             /\ pc' = "thrown"
             /\ UNCHANGED windows
        ELSE \/ /\ windows' = (windowName :> newSize) @@ windows
                /\ pc' = next
                /\ UNCHANGED exc
             \/ /\ exc' = "std"
                /\ pc' = "thrown"
                /\ UNCHANGED windows
             \/ /\ windows' = (windowName :> BlankWindow) @@ windows
                /\ exc' \in {"std", "unknown"}
                /\ pc' = "thrown"

-----------------------------------------------------------------------------
(* The calls the model makes.                                              *)

Str_a == <<"a">>
Dir_d == <<"d", "/">>

SamplePaths ==
    { Str_a \o ExtJpg,                             \* a.jpg
      Dir_d \o Str_a \o ExtJpg,                    \* d/a.jpg
      Dir_d \o Str_a \o ExtJpeg,                   \* d/a.jpeg
      <<"/">> \o Str_a \o ExtJpg,                  \* /a.jpg
      Dir_d \o <<"/">> \o Str_a \o ExtJpg,         \* d//a.jpg
      Str_a \o <<".", "b">> \o ExtJpeg,            \* a.b.jpeg
      Dir_d \o <<".", "x">> \o ExtJpg,             \* d/.x.jpg
      Str_a \o <<".", "J", "P", "G">>,             \* a.JPG
      Dir_d \o Str_a \o ExtPng,                    \* d/a.png
      Str_a \o <<".", "b", "m", "p">>,             \* a.bmp
      Str_a,                                       \* a
      Dir_d \o ExtJpg,                             \* d/.jpg
      <<"d">> \o ExtJpg \o <<"/">> \o Str_a,       \* d.jpg/a
      Str_a \o ExtJpg \o <<".">>,                  \* a.jpg.
      Dir_d }                                      \* d/

\* The path the pixel-level calls are made with: d/a.jpg
MainPath == Dir_d \o Str_a \o ExtJpg

\* The colours of the sample images, as <<blue, green, red>>.
Palette == { <<0, 0, 255>>, <<128, 128, 128>>, <<255, 255, 255>> }

ImageRows == {1, 2}

ColorImages(rowSet, colSet) ==
    UNION { { [rows |-> nr, cols |-> nc, channels |-> 3, data |-> px] :
                px \in [1..(nr * nc) -> Palette] } :
            nr \in rowSet, nc \in colSet }

SampleImages == ColorImages(ImageRows, 1..MaxCols)

\* One decodable image for the calls that vary the path.
OnePixelImage ==
    [rows |-> 1, cols |-> 1, channels |-> 3, data |-> << <<128, 128, 128>> >>]

FixedThresholds == {-1, 127, 128, 300}

\* A stale output file, left by something else before the call.
StaleFile == [bytes |-> 9, image |-> EmptyMat]

\* Calls that vary the path and the state of the filesystem.
PathCalls ==
    [path : SamplePaths,
     file : {<<"absent">>, <<"file", JunkFile>>, <<"file", JpegFile(OnePixelImage)>>},
     stale : BOOLEAN, show : BOOLEAN, otsu : BOOLEAN, thr : {128}]

\* Calls that vary the image and the threshold.
PixelCalls ==
    [path : {MainPath},
     file : {<<"file", JpegFile(img)>> : img \in SampleImages},
     stale : {FALSE}, show : BOOLEAN, otsu : {TRUE}, thr : {128}]
    \cup
    [path : {MainPath},
     file : {<<"file", JpegFile(img)>> : img \in SampleImages},
     stale : {FALSE}, show : BOOLEAN, otsu : {FALSE}, thr : FixedThresholds]

InitialDisk(call) ==
    (IF call.file[1] = "file" THEN call.path :> call.file[2] ELSE NoFiles)
    @@ (IF call.stale THEN OutputPathOf(call.path) :> StaleFile ELSE NoFiles)

\* The state as binarizeAndSaveJPG is entered (lines 37-40).
InitCall(call) ==
    /\ inputPath = call.path
    /\ showResult = call.show
    /\ useOtsu = call.otsu
    /\ fixedThreshold = call.thr
    /\ disk = InitialDisk(call)
    /\ disk0 = InitialDisk(call)
    /\ pc = "start"
    /\ exc = "none"
    /\ outputFilePath = << >>
    /\ image = EmptyMat
    /\ grayImage = EmptyMat
    /\ binaryImage = EmptyMat
    /\ thresholdValue = 0
    /\ colorBinary = [mat |-> EmptyMat, texts |-> << >>]
    /\ cout = << >>
    /\ cerr = << >>
    /\ windows = NoWindows
    /\ keyPressed = FALSE
    /\ keysRead = 0
    /\ result = << >>
    /\ trace = << >>

Init == \E call \in PathCalls \cup PixelCalls : InitCall(call)

-----------------------------------------------------------------------------
(* binarizeAndSaveJPG, one action per step of its body.                    *)

Step(name) == trace' = Append(trace, name)

\* `return ""` after a message on std::cerr
Fail(message) ==
    /\ cerr' = Append(cerr, message)
    /\ result' = << >>
    /\ pc' = "done"

\* lines 43-49
CheckExtension ==
    /\ pc = "start"
    /\ Step("CheckExtension")
    /\ IF UnsupportedExtension(inputPath)
       THEN Fail("unsupported format")
       ELSE pc' = "check_exists" /\ UNCHANGED <<cerr, result>>
    /\ UNCHANGED <<inputPath, showResult, useOtsu, fixedThreshold, disk, disk0,
                   exc, outputFilePath, image, grayImage, binaryImage,
                   thresholdValue, colorBinary, cout, windows, keyPressed,
                   keysRead>>

\* A variant that reports the missing file and goes on.
CheckExists_NoReturn ==
    /\ pc = "check_exists"
    /\ Step("CheckExists")
    /\ cerr' = IF ~Exists(disk, inputPath) THEN Append(cerr, "file not found") ELSE cerr
    /\ pc' = "derive_output"
    /\ UNCHANGED <<inputPath, showResult, useOtsu, fixedThreshold, disk, disk0,
                   exc, outputFilePath, image, grayImage, binaryImage,
                   thresholdValue, colorBinary, cout, windows, keyPressed,
                   keysRead, result>>

\* lines 52-55
CheckExists ==
    /\ pc = "check_exists"
    /\ Step("CheckExists")
    /\ IF ~Exists(disk, inputPath)
       THEN Fail("file not found")
       ELSE pc' = "derive_output" /\ UNCHANGED <<cerr, result>>
    /\ UNCHANGED <<inputPath, showResult, useOtsu, fixedThreshold, disk, disk0,
                   exc, outputFilePath, image, grayImage, binaryImage,
                   thresholdValue, colorBinary, cout, windows, keyPressed,
                   keysRead>>

\* lines 58-59
DeriveOutputPath ==
    /\ pc = "derive_output"
    /\ Step("DeriveOutputPath")
    /\ outputFilePath' = OutputPathOf(inputPath)
    /\ pc' = "read"
    /\ UNCHANGED <<inputPath, showResult, useOtsu, fixedThreshold, disk, disk0,
                   exc, image, grayImage, binaryImage, thresholdValue,
                   colorBinary, cout, cerr, windows, keyPressed, keysRead,
                   result>>

\* A variant that reports the unreadable image and goes on.
ReadImage_NoReturn ==
    /\ pc = "read"
    /\ Step("ReadImage")
    /\ image' = Imread(disk, inputPath)
    /\ cerr' = IF IsEmpty(image') THEN Append(cerr, "cannot read image") ELSE cerr
    /\ pc' = "gray"
    /\ UNCHANGED <<inputPath, showResult, useOtsu, fixedThreshold, disk, disk0,
                   exc, outputFilePath, grayImage, binaryImage, thresholdValue,
                   colorBinary, cout, windows, keyPressed, keysRead, result>>

\* lines 65-69
ReadImage ==
    /\ pc = "read"
    /\ Step("ReadImage")
    /\ image' = Imread(disk, inputPath)
    /\ IF IsEmpty(image')
       THEN Fail("cannot read image")
       ELSE pc' = "gray" /\ UNCHANGED <<cerr, result>>
    /\ UNCHANGED <<inputPath, showResult, useOtsu, fixedThreshold, disk, disk0,
                   exc, outputFilePath, grayImage, binaryImage, thresholdValue,
                   colorBinary, cout, windows, keyPressed, keysRead>>

\* lines 72-73; the allocation of grayImage may fail with an exception
ConvertGray ==
    /\ pc = "gray"
    /\ Step("ConvertGray")
    /\ \/ /\ grayImage' = CvtColorBGR2GRAY(image)
          /\ pc' = "binarize"
          /\ UNCHANGED exc
       \/ /\ exc' = "std"
          /\ pc' = "thrown"
          /\ UNCHANGED grayImage
    /\ UNCHANGED <<inputPath, showResult, useOtsu, fixedThreshold, disk, disk0,
                   outputFilePath, image, binaryImage, thresholdValue,
                   colorBinary, cout, cerr, windows, keyPressed, keysRead,
                   result>>

\* lines 76-94
Binarize ==
    /\ pc = "binarize"
    /\ Step("Binarize")
    /\ IF useOtsu
       THEN /\ thresholdValue' = OtsuThreshold(grayImage)
            /\ binaryImage' = ThresholdBinary(grayImage, OtsuThreshold(grayImage), 255)
       ELSE /\ thresholdValue' = fixedThreshold
            /\ binaryImage' = ThresholdBinary(grayImage, fixedThreshold, 255)
    /\ pc' = "write"
    /\ UNCHANGED <<inputPath, showResult, useOtsu, fixedThreshold, disk, disk0,
                   exc, outputFilePath, image, grayImage, colorBinary, cout,
                   cerr, windows, keyPressed, keysRead, result>>

\* lines 97-104.  cv::imwrite writes the file and returns true, or returns
\* false without a file written, or returns true although the file it left
\* is empty (the case the test of lines 121-124 is there for).
WriteImage ==
    /\ pc = "write"
    /\ Step("WriteImage")
    /\ \/ /\ disk' = (outputFilePath :> PngFile(binaryImage)) @@ disk
          /\ pc' = "print"
          /\ UNCHANGED <<cerr, result>>
       \/ /\ disk' = (outputFilePath :> ZeroLengthFile) @@ disk
          /\ pc' = "print"
          /\ UNCHANGED <<cerr, result>>
       \/ /\ Fail("cannot save image")
          /\ UNCHANGED disk
    /\ UNCHANGED <<inputPath, showResult, useOtsu, fixedThreshold, disk0, exc,
                   outputFilePath, image, grayImage, binaryImage,
                   thresholdValue, colorBinary, cout, windows, keyPressed,
                   keysRead>>

\* A variant that reports the parameter instead of the threshold used.
PrintInfo_ReportsFixed ==
    /\ pc = "print"
    /\ Step("PrintInfo")
    /\ cout' = Append(cout, [input |-> inputPath, output |-> outputFilePath,
                             cols |-> image.cols, rows |-> image.rows,
                             threshold |-> fixedThreshold,
                             method |-> IF useOtsu THEN "Otsu" ELSE "fixed"])
    /\ pc' = "verify"
    /\ UNCHANGED <<inputPath, showResult, useOtsu, fixedThreshold, disk, disk0,
                   exc, outputFilePath, image, grayImage, binaryImage,
                   thresholdValue, colorBinary, cerr, windows, keyPressed,
                   keysRead, result>>

\* lines 107-118
PrintInfo ==
    /\ pc = "print"
    /\ Step("PrintInfo")
    /\ cout' = Append(cout, [input |-> inputPath, output |-> outputFilePath,
                             cols |-> image.cols, rows |-> image.rows,
                             threshold |-> thresholdValue,
                             method |-> IF useOtsu THEN "Otsu" ELSE "fixed"])
    /\ pc' = "verify"
    /\ UNCHANGED <<inputPath, showResult, useOtsu, fixedThreshold, disk, disk0,
                   exc, outputFilePath, image, grayImage, binaryImage,
                   thresholdValue, colorBinary, cerr, windows, keyPressed,
                   keysRead, result>>

\* A variant that displays whatever showResult says.
VerifyOutput_AlwaysShows ==
    /\ pc = "verify"
    /\ Step("VerifyOutput")
    /\ IF ~Exists(disk, outputFilePath) \/ FileSize(disk, outputFilePath) = 0
       THEN Fail("output not created or empty")
       ELSE /\ pc' = "annotate"
            /\ UNCHANGED <<cerr, result>>
    /\ UNCHANGED <<inputPath, showResult, useOtsu, fixedThreshold, disk, disk0,
                   exc, outputFilePath, image, grayImage, binaryImage,
                   thresholdValue, colorBinary, cout, windows, keyPressed,
                   keysRead>>

\* lines 121-127
VerifyOutput ==
    /\ pc = "verify"
    /\ Step("VerifyOutput")
    /\ IF ~Exists(disk, outputFilePath) \/ FileSize(disk, outputFilePath) = 0
       THEN Fail("output not created or empty")
       ELSE /\ pc' = IF showResult THEN "annotate" ELSE "return"
            /\ UNCHANGED <<cerr, result>>
    /\ UNCHANGED <<inputPath, showResult, useOtsu, fixedThreshold, disk, disk0,
                   exc, outputFilePath, image, grayImage, binaryImage,
                   thresholdValue, colorBinary, cout, windows, keyPressed,
                   keysRead>>

\* lines 129-144: static_cast<int>(thresholdValue) and the size, as texts
Annotate ==
    /\ pc = "annotate"
    /\ Step("Annotate")
    /\ colorBinary' =
         [mat   |-> CvtColorGRAY2BGR(binaryImage),
          texts |-> << <<"threshold", thresholdValue>>,
                       <<"size", binaryImage.cols, binaryImage.rows>> >>]
    /\ pc' = "display_original"
    /\ UNCHANGED <<inputPath, showResult, useOtsu, fixedThreshold, disk, disk0,
                   exc, outputFilePath, image, grayImage, binaryImage,
                   thresholdValue, cout, cerr, windows, keyPressed, keysRead,
                   result>>

OriginalWindow == <<"original">> \o Filename(inputPath)
BinaryWindow   == <<"binary">> \o Filename(inputPath)

\* line 147
DisplayOriginal ==
    /\ pc = "display_original"
    /\ Step("DisplayOriginal")
    /\ AdaptiveDisplay(OriginalWindow, image, "display_binary")
    /\ UNCHANGED <<inputPath, showResult, useOtsu, fixedThreshold, disk, disk0,
                   outputFilePath, image, grayImage, binaryImage,
                   thresholdValue, colorBinary, cout, cerr, keyPressed,
                   keysRead, result>>

\* line 148
DisplayBinary ==
    /\ pc = "display_binary"
    /\ Step("DisplayBinary")
    /\ AdaptiveDisplay(BinaryWindow, colorBinary.mat, "wait_key")
    /\ UNCHANGED <<inputPath, showResult, useOtsu, fixedThreshold, disk, disk0,
                   outputFilePath, image, grayImage, binaryImage,
                   thresholdValue, colorBinary, cout, cerr, keyPressed,
                   keysRead, result>>

\* The user presses a key while cv::waitKey(0) waits.
PressKey ==
    /\ pc = "wait_key"
    /\ ~keyPressed
    /\ keyPressed' = TRUE
    /\ UNCHANGED <<inputPath, showResult, useOtsu, fixedThreshold, disk, disk0,
                   pc, exc, outputFilePath, image, grayImage, binaryImage,
                   thresholdValue, colorBinary, cout, cerr, windows, keysRead,
                   result, trace>>

\* line 151: cv::waitKey(0) returns once a key has been pressed
WaitKey ==
    /\ pc = "wait_key"
    /\ keyPressed
    /\ Step("WaitKey")
    /\ keyPressed' = FALSE
    /\ keysRead' = keysRead + 1
    /\ pc' = "destroy"
    /\ UNCHANGED <<inputPath, showResult, useOtsu, fixedThreshold, disk, disk0,
                   exc, outputFilePath, image, grayImage, binaryImage,
                   thresholdValue, colorBinary, cout, cerr, windows, result>>

\* line 152
DestroyAllWindows ==
    /\ pc = "destroy"
    /\ Step("DestroyAllWindows")
    /\ windows' = NoWindows
    /\ pc' = "return"
    /\ UNCHANGED <<inputPath, showResult, useOtsu, fixedThreshold, disk, disk0,
                   exc, outputFilePath, image, grayImage, binaryImage,
                   thresholdValue, colorBinary, cout, cerr, keyPressed,
                   keysRead, result>>

\* line 155
ReturnOutput ==
    /\ pc = "return"
    /\ Step("ReturnOutput")
    /\ result' = outputFilePath
    /\ pc' = "done"
    /\ UNCHANGED <<inputPath, showResult, useOtsu, fixedThreshold, disk, disk0,
                   exc, outputFilePath, image, grayImage, binaryImage,
                   thresholdValue, colorBinary, cout, cerr, windows,
                   keyPressed, keysRead>>

\* lines 156-158
CatchStdException ==
    /\ pc = "thrown"
    /\ exc = "std"
    /\ Step("CatchStdException")
    /\ Fail("exception")
    /\ UNCHANGED <<inputPath, showResult, useOtsu, fixedThreshold, disk, disk0,
                   exc, outputFilePath, image, grayImage, binaryImage,
                   thresholdValue, colorBinary, cout, windows, keyPressed,
                   keysRead>>

\* lines 159-162
CatchUnknown ==
    /\ pc = "thrown"
    /\ exc = "unknown"
    /\ Step("CatchUnknown")
    /\ Fail("unknown exception")
    /\ UNCHANGED <<inputPath, showResult, useOtsu, fixedThreshold, disk, disk0,
                   exc, outputFilePath, image, grayImage, binaryImage,
                   thresholdValue, colorBinary, cout, windows, keyPressed,
                   keysRead>>

Next ==
    \/ CheckExtension
    \/ CheckExists
    \/ DeriveOutputPath
    \/ ReadImage
    \/ ConvertGray
    \/ Binarize
    \/ WriteImage
    \/ PrintInfo
    \/ VerifyOutput
    \/ Annotate
    \/ DisplayOriginal
    \/ DisplayBinary
    \/ PressKey
    \/ WaitKey
    \/ DestroyAllWindows
    \/ ReturnOutput
    \/ CatchStdException
    \/ CatchUnknown

Spec == Init /\ [][Next]_vars

-----------------------------------------------------------------------------
(* adaptiveDisplay applied on its own to images of display-relevant        *)
(* heights.                                                                *)

DisplayRows == {1, 2, 799, 800, 801, 900, 1000, 1078, 1225, 1600, 1601}

\* The header of an nr x nc colour image.  adaptiveDisplay reads rows and
\* cols only; the nr * nc pixels are left out of the state.
ImageHeader(nr, nc) ==
    [rows |-> nr, cols |-> nc, channels |-> 3, data |-> << >>]

TestWindow == <<"w">>

InitDisplay ==
    /\ \E nr \in DisplayRows, nc \in 1..MaxDisplayCols :
           image = ImageHeader(nr, nc)
    /\ pc = "adaptive_display"
    /\ inputPath = << >>
    /\ showResult = TRUE
    /\ useOtsu = TRUE
    /\ fixedThreshold = 128
    /\ disk = NoFiles
    /\ disk0 = NoFiles
    /\ exc = "none"
    /\ outputFilePath = << >>
    /\ grayImage = EmptyMat
    /\ binaryImage = EmptyMat
    /\ thresholdValue = 0
    /\ colorBinary = [mat |-> EmptyMat, texts |-> << >>]
    /\ cout = << >>
    /\ cerr = << >>
    /\ windows = NoWindows
    /\ keyPressed = FALSE
    /\ keysRead = 0
    /\ result = << >>
    /\ trace = << >>

\* adaptiveDisplay(TestWindow, image), lines 9-27
CallAdaptiveDisplay ==
    /\ pc = "adaptive_display"
    /\ Step("AdaptiveDisplay")
    /\ AdaptiveDisplay(TestWindow, image, "returned")
    /\ UNCHANGED <<inputPath, showResult, useOtsu, fixedThreshold, disk, disk0,
                   outputFilePath, image, grayImage, binaryImage,
                   thresholdValue, colorBinary, cout, cerr, keyPressed,
                   keysRead, result>>

NextDisplay == CallAdaptiveDisplay

SpecDisplay == InitDisplay /\ [][NextDisplay]_vars

-----------------------------------------------------------------------------
(* The claims.                                                             *)

Executed(name) == \E i \in DOMAIN trace : trace[i] = name

AcceptedExtension == Extension(inputPath) \in {ExtJpg, ExtJpeg}

OutputName == BinaryPrefix \o Stem(inputPath) \o ExtPng

\* C1: a non-empty result is <parent of the input>/binary_<stem>.png: its
\* parent directory is the input's, its file name is binary_<stem>.png, and
\* its extension is .png whether the input was .jpg or .jpeg.
C1_OutputPathDerived ==
    (pc = "done" /\ result # << >>) =>
        /\ AcceptedExtension
        /\ ParentPath(result) = ParentPath(inputPath)
        /\ Filename(result) = OutputName
        /\ Extension(result) = ExtPng
        /\ result = IF ParentPath(inputPath) = << >> THEN OutputName
                    ELSE IF ParentPath(inputPath) = <<"/">> THEN <<"/">> \o OutputName
                    ELSE ParentPath(inputPath) \o <<"/">> \o OutputName

C1_Witness ==
    /\ pc = "done"
    /\ result # << >>
    /\ Extension(inputPath) = ExtJpeg
    /\ ParentPath(inputPath) # << >>

StepOrder ==
    <<"CheckExtension", "CheckExists", "DeriveOutputPath", "ReadImage",
      "ConvertGray", "Binarize", "WriteImage", "PrintInfo", "VerifyOutput",
      "Annotate", "DisplayOriginal", "DisplayBinary", "WaitKey",
      "DestroyAllWindows", "ReturnOutput", "CatchStdException", "CatchUnknown">>

Position(name) == CHOOSE k \in DOMAIN StepOrder : StepOrder[k] = name

Handlers == {"CatchStdException", "CatchUnknown"}

FailurePoints ==
    {"CheckExtension", "CheckExists", "ReadImage", "WriteImage", "VerifyOutput"}
    \cup Handlers

\* C2: a failure is terminal.  Once an error has been reported the call has
\* returned the empty string; an exception in flight is followed by nothing
\* but its handler; the steps run in the order of the code, none twice; an
\* empty result comes from a failing step or a handler, which is the last
\* step executed; and nothing runs after the return.
C2_FailureIsTerminal ==
    /\ cerr # << >> => (pc = "done" /\ result = << >> /\ Len(cerr) = 1)
    /\ \A i \in DOMAIN trace : \A k \in DOMAIN trace :
           i < k => Position(trace[i]) < Position(trace[k])
    /\ \A i \in DOMAIN trace : trace[i] \in Handlers => i = Len(trace)
    /\ pc = "thrown" => (ENABLED Next /\ ~ENABLED (Next /\ pc' # "done"))
    /\ (pc = "done" /\ result = << >>) =>
           (trace # << >> /\ trace[Len(trace)] \in FailurePoints /\ cerr # << >>)
    /\ pc = "done" => ~ENABLED Next

C2_Witness ==
    /\ pc = "done"
    /\ result = << >>
    /\ cerr = <<"cannot read image">>

\* C3: whenever the call returns the empty string it has left no output file
\* behind: the output path holds what it held before the call.
C3_NoOutputLeftOnFailure ==
    (pc = "done" /\ result = << >>) =>
        LET out == OutputPathOf(inputPath)
        IN  Exists(disk, out) => (Exists(disk0, out) /\ disk[out] = disk0[out])

\* C4: an input whose extension is neither .jpg nor .jpeg is rejected by the
\* first step, whether or not the file exists: the empty string is returned,
\* nothing is decoded and the filesystem is left as it was.
C4_UnsupportedExtensionRejected ==
    ~AcceptedExtension =>
        /\ pc \in {"start", "done"}
        /\ IsEmpty(image)
        /\ disk = disk0
        /\ pc = "done" => (result = << >> /\ trace = <<"CheckExtension">>)

C4_Witness ==
    /\ pc = "done"
    /\ Extension(inputPath) = <<".", "J", "P", "G">>
    /\ Exists(disk, inputPath)
    /\ result = << >>

\* C5: an input with an accepted extension that does not exist is rejected
\* by the existence check: the empty string is returned, the decode and
\* write steps are never reached and no file is created.
C5_MissingInputRejected ==
    (AcceptedExtension /\ ~Exists(disk0, inputPath)) =>
        /\ pc \in {"start", "check_exists", "done"}
        /\ IsEmpty(image)
        /\ disk = disk0
        /\ pc = "done" =>
               (result = << >> /\ trace = <<"CheckExtension", "CheckExists">>)

C5_Witness ==
    /\ pc = "done"
    /\ AcceptedExtension
    /\ ~Exists(disk0, inputPath)
    /\ result = << >>

\* C6: in fixed mode the threshold used and reported is fixedThreshold, and
\* each output pixel is 255 where the gray pixel is strictly above it and 0
\* elsewhere.
C6_FixedModeBinarization ==
    (~useOtsu /\ Executed("Binarize")) =>
        /\ thresholdValue = fixedThreshold
        /\ \A i \in DOMAIN cout : cout[i].threshold = fixedThreshold
        /\ Len(binaryImage.data) = Len(grayImage.data)
        /\ \A i \in DOMAIN grayImage.data :
               /\ binaryImage.data[i] \in {0, 255}
               /\ binaryImage.data[i] = 255 <=> grayImage.data[i] > fixedThreshold

C6_Witness ==
    /\ ~useOtsu
    /\ cout # << >>
    /\ \E i \in DOMAIN grayImage.data :
           grayImage.data[i] = fixedThreshold /\ binaryImage.data[i] = 0
    /\ \E i \in DOMAIN grayImage.data :
           grayImage.data[i] > fixedThreshold /\ binaryImage.data[i] = 255

\* C7: adaptiveDisplay shows an image of at most 800 rows at its own size,
\* and a taller one 800 high and cols * 800 / rows (truncated) wide.
C7_DisplaySize ==
    pc = "returned" =>
        IF image.rows <= 800
        THEN windows[TestWindow] = [width |-> image.cols, height |-> image.rows]
        ELSE /\ windows[TestWindow].height = 800
             /\ windows[TestWindow].width = (image.cols * 800) \div image.rows

\* C8: whenever the call has returned, by either route, no window is open.
C8_WindowsReleased == pc = "done" => DOMAIN windows = {}

BothWindowsOpen == DOMAIN windows = {OriginalWindow, BinaryWindow}

DisplaySteps ==
    <<"Annotate", "DisplayOriginal", "DisplayBinary", "WaitKey",
      "DestroyAllWindows", "ReturnOutput">>

VerifiedOutputWritten ==
    /\ Executed("WriteImage")
    /\ Executed("VerifyOutput")
    /\ Exists(disk, outputFilePath)
    /\ FileSize(disk, outputFilePath) > 0

DisplayOnlyWhenAsked ==
    /\ (Executed("Annotate") \/ DOMAIN windows # {} \/ pc = "wait_key")
           => (showResult /\ VerifiedOutputWritten)
    /\ ~showResult => (DOMAIN windows = {} /\ keysRead = 0 /\ ~keyPressed)

DisplayRanToTheEnd ==
    /\ Len(trace) >= Len(DisplaySteps)
    /\ SubSeq(trace, Len(trace) - 5, Len(trace)) = DisplaySteps
    /\ keysRead = 1
    /\ DOMAIN windows = {}
    /\ result = outputFilePath
    /\ result # << >>

\* C9 as stated: the display runs only when asked and after the verified
\* write; once it has run, the call returns the output path with both
\* windows opened, one key read and every window closed.
C9_DisplaySequence ==
    /\ DisplayOnlyWhenAsked
    /\ (pc = "done" /\ Executed("Annotate")) => DisplayRanToTheEnd

\* C9 amended: as above when no display call raises; when one does, the call
\* returns the empty string through a handler without reading a key.  The
\* call waits for the key with both windows open.
C9_DisplaySequenceUnlessRaised ==
    /\ DisplayOnlyWhenAsked
    /\ pc = "wait_key" => (BothWindowsOpen /\ keysRead = 0)
    /\ pc = "destroy" => (BothWindowsOpen /\ keysRead = 1)
    /\ (pc = "done" /\ Executed("Annotate")) =>
           \/ DisplayRanToTheEnd
           \/ /\ trace[Len(trace)] \in Handlers
              /\ result = << >>
              /\ keysRead = 0

C9_Witness ==
    /\ pc = "done"
    /\ showResult
    /\ DisplayRanToTheEnd

\* C10 as stated: the threshold applied and reported is in 0..255.
C10_ThresholdInRange ==
    Executed("Binarize") =>
        /\ thresholdValue \in 0..255
        /\ \A i \in DOMAIN cout : cout[i].threshold \in 0..255

\* C10 amended: the threshold reported is the threshold applied; in Otsu mode
\* it is in 0..255; in fixed mode it is fixedThreshold, so it is in 0..255
\* exactly when fixedThreshold is.
C10_ThresholdRangeByMode ==
    Executed("Binarize") =>
        /\ \A i \in DOMAIN cout : cout[i].threshold = thresholdValue
        /\ useOtsu => thresholdValue \in 0..255
        /\ ~useOtsu => thresholdValue = fixedThreshold
        /\ thresholdValue \in 0..255 <=> (useOtsu \/ fixedThreshold \in 0..255)

C10_Witness ==
    /\ useOtsu
    /\ cout # << >>
    /\ thresholdValue = 76

=============================================================================
